---- MODULE Spec2Model ----
(***************************************************************************)
(* Alchemium: the Unit of Work (src/src/uow/session.py) and the repository *)
(* read operations (src/src/mixins/read.py, src/src/queries/workers.py),   *)
(* run against a session whose calls succeed or raise.                     *)
(*                                                                         *)
(* One scope `async with UnitOfWork(factory) as uow: body` is modelled:    *)
(* Enter is __aenter__, the Body* actions are the statements a body can    *)
(* run against uow.session, Exit is __aexit__.  Every awaited session call *)
(* (execute, commit, rollback, close) draws its outcome from the session:  *)
(* it returns, raises a driver exception, or the task is cancelled while   *)
(* it is in flight (asyncio.CancelledError, a BaseException).              *)
(*                                                                         *)
(* Six specifications share the operators:                                 *)
(*   Spec      one scope, the read operations over all their arguments;    *)
(*   RepoSpec  one scope, the eight repository operations (create.py,      *)
(*             update.py, read.py) called on its session;                  *)
(*   DataSpec  scope after scope over one database: what create stages is  *)
(*             inserted by the commit of the scope and read back later;    *)
(*   TxSpec    scope after scope with create, update, delete and commit    *)
(*             in one body: what reaches the rows and when;                *)
(*   BuildSpec repeated get_one and list calls with the plans they built;  *)
(*   MultiSpec two UnitOfWork instances whose scopes interleave.           *)
(***************************************************************************)
EXTENDS Integers, Sequences, FiniteSets, TLC

VARIABLES
    pc,         \* "Idle" | "Body" | "Op" | "Closed": position of the scope
    session,    \* number of sessions acquired from the factory
    calls,      \* the session's call log: <<[m, by, res]>> in call order
    steps,      \* body statements run so far
    pending,    \* exception propagating inside the body, or NoExc
    bodyExc,    \* exception that propagated out of the body into __aexit__
    outcome,    \* what the caller of the scope sees once it is closed
    lastCommit, \* last UnitOfWork.commit(): session.commit's fault, what it raised
    lastOp,     \* last repository operation: inputs and what it raised
    lastWrite,  \* last create / update / delete: inputs, object, what it raised
    staged,     \* what the session holds for its next flush: <<[kind, obj, data]>>
    db,         \* the committed rows of table users, in insertion order
    result,     \* the rows the last read operation returned
    lastFault,  \* what the session.execute of the last read operation raised
    history,    \* the read operations of the scope so far: inputs and plan
    uows,       \* the UnitOfWork instances: position, self.session, scope
    slog        \* the calls made on the sessions of the factory, in call order

vars == <<pc, session, calls, steps, pending, bodyExc, outcome, lastCommit, lastOp,
          lastWrite, staged, db, result, lastFault, history, uows, slog>>

----------------------------------------------------------------------------
(* Bounds *)

MaxBodySteps == 1
MaxMsgWords == 1
MaxFilters == 2
MaxJoins == 2
MaxData == 2
MaxPage == 2
MaxReads == 3
MaxSessions == 3
MaxTxSteps == 2

----------------------------------------------------------------------------
(* Texts: a string is a sequence of words; str.lower() acts word by word,  *)
(* `w in s` is membership of the lower-case word.                          *)

Words == {"UNIQUE", "FOREIGN KEY", "check"}

SeqsUpTo(S, n) == UNION {[1..k -> S] : k \in 0..n}

Texts == SeqsUpTo(Words, MaxMsgWords)

\* the statement of a DBAPIError, the message of another exception
Messages == {<<>>} \cup {<<w>> : w \in Words}

LowerWord(w) ==
    CASE w = "UNIQUE" -> "unique"
      [] w = "FOREIGN KEY" -> "foreign key"
      [] w = "None" -> "none"
      [] OTHER -> w

Lower(s) == [i \in 1..Len(s) |-> LowerWord(s[i])]

In(w, s) == \E i \in 1..Len(s) : s[i] = w

----------------------------------------------------------------------------
(* Exceptions.  One record shape for all of them: a driver exception has   *)
(* msg (its first argument: the statement of a DBAPIError, the message of  *)
(* any other) and orig (the underlying driver error, possibly None); a     *)
(* taxonomy error has the keyword arguments of RepositoryError.__init__.   *)

Exc(kind, hasOrig, orig, msg, original, details, model, field, rel) ==
    [kind |-> kind, hasOrig |-> hasOrig, orig |-> orig, msg |-> msg,
     original |-> original, details |-> details, model |-> model,
     field |-> field, rel |-> rel]

NoExc == Exc("None", FALSE, <<>>, <<>>, <<>>, "", "", "", "")

Returned == Exc("Returned", FALSE, <<>>, <<>>, <<>>, "", "", "", "")

Fault(kind, hasOrig, orig, msg) == Exc(kind, hasOrig, orig, msg, <<>>, "", "", "", "")

Err(kind, original, details, model, field, rel) ==
    Exc(kind, FALSE, <<>>, <<>>, original, details, model, field, rel)

\* class -> base class: the driver's classes (sqlalchemy.exc), the builtins,
\* asyncio.CancelledError and the taxonomy of src/exceptions
Parent ==
    [k \in {"IntegrityError", "DataError"} |-> "DatabaseError"] @@
    ("DatabaseError" :> "DBAPIError") @@
    ("DBAPIError" :> "StatementError") @@
    ("StatementError" :> "SQLAlchemyError") @@
    [k \in {"SQLAlchemyError", "RuntimeError", "AppError", "RepositoryError",
            "TypeError", "ValueError"}
        |-> "Exception"] @@
    [k \in {"Exception", "CancelledError"} |-> "BaseException"] @@
    [k \in {"TransactionError", "QueryError", "RelationNotFoundError",
            "FieldNotFoundError", "QueryExecutionError", "RepositoryUsageError"}
        |-> "RepositoryError"] @@
    [k \in {"UniqueViolation", "ForeignKeyViolation", "DataValidationError",
            "UnknownTransactionError"} |-> "TransactionError"] @@
    [k \in {"OrderByFieldError", "PaginationParameterError"} |-> "QueryError"]

RECURSIVE IsInstance(_, _)
IsInstance(kind, cls) ==
    IF kind = cls THEN TRUE
    ELSE IF kind \in DOMAIN Parent THEN IsInstance(Parent[kind], cls)
    ELSE FALSE

\* str(exc.orig): str(None) is "None"
StrOrig(exc) == IF exc.hasOrig THEN exc.orig ELSE <<"None">>

\* str(exc): a DBAPIError renders its orig and then its statement; any other
\* exception renders its message
StrExc(exc) ==
    IF IsInstance(exc.kind, "DBAPIError") THEN StrOrig(exc) \o exc.msg ELSE exc.msg

----------------------------------------------------------------------------
(* The session: what its awaited calls can answer. *)

IntegrityFaults ==
    {Fault("IntegrityError", TRUE, o, m) : o \in Texts, m \in Messages} \cup
    {Fault("IntegrityError", FALSE, <<>>, m) : m \in Messages}

OtherCommitFaults ==
    {Fault(k, FALSE, <<>>, m) :
        k \in {"DataError", "SQLAlchemyError", "RuntimeError", "CancelledError"},
        m \in Messages}

CommitOutcomes == {NoExc} \cup IntegrityFaults \cup OtherCommitFaults

RollbackOutcomes ==
    {NoExc, Fault("SQLAlchemyError", FALSE, <<>>, <<>>),
     Fault("CancelledError", FALSE, <<>>, <<>>)}

CloseOutcomes == {NoExc, Fault("SQLAlchemyError", FALSE, <<>>, <<>>)}

\* how an awaited call ended: it returned, raised an Exception, or the task
\* was cancelled in it (CancelledError is a BaseException, not an Exception)
Res(exc) ==
    IF exc = NoExc THEN "ok"
    ELSE IF IsInstance(exc.kind, "Exception") THEN "raise"
    ELSE "cancel"

Call(m, res) == [m |-> m, by |-> "", res |-> Res(res)]

By(who, cs) == [i \in 1..Len(cs) |-> [cs[i] EXCEPT !.by = who]]

----------------------------------------------------------------------------
(* UnitOfWork *)

\* ClassifyIntegrity without .lower(): the markers are matched case-sensitively
ClassifyIntegrityCaseSensitive(exc) ==
    LET msg == StrOrig(exc) IN
    IF In("unique", msg) THEN Err("UniqueViolation", StrExc(exc), "", "", "", "")
    ELSE IF In("foreign key", msg)
         THEN Err("ForeignKeyViolation", StrExc(exc), "", "", "", "")
    ELSE Err("TransactionError", StrExc(exc), "", "", "", "")

\* the except IntegrityError branch of commit(): the classification of msg
ClassifyIntegrity(exc) ==
    LET msg == Lower(StrOrig(exc)) IN
    IF In("unique", msg) THEN Err("UniqueViolation", StrExc(exc), "", "", "", "")
    ELSE IF In("foreign key", msg)
         THEN Err("ForeignKeyViolation", StrExc(exc), "", "", "", "")
    ELSE Err("TransactionError", StrExc(exc), "", "", "", "")

\* IntegrityErrorMapper.map: the text searched is that of exc.orig when there
\* is one, and that of the exception itself otherwise
IntegrityErrorMapper_map(exc) ==
    LET msg == IF exc.hasOrig THEN Lower(StrOrig(exc)) ELSE Lower(StrExc(exc)) IN
    IF In("unique", msg) THEN Err("UniqueViolation", StrExc(exc), "", "", "", "")
    ELSE IF In("foreign key", msg)
         THEN Err("ForeignKeyViolation", StrExc(exc), "", "", "", "")
    ELSE Err("TransactionError", StrExc(exc), "", "", "", "")

\* an except branch of commit(): await session.rollback(), then raise
RollbackThenRaise(c, r, err) ==
    [calls |-> <<Call("commit", c), Call("rollback", r)>>,
     raised |-> IF r # NoExc THEN r ELSE err]

\* commit() whose last branch (except Exception) raises without rolling back
commitUnknownNotRolledBack(c, r) ==
    IF c = NoExc THEN [calls |-> <<Call("commit", c)>>, raised |-> NoExc]
    ELSE IF IsInstance(c.kind, "IntegrityError")
         THEN RollbackThenRaise(c, r, ClassifyIntegrity(c))
    ELSE IF IsInstance(c.kind, "DataError")
         THEN RollbackThenRaise(c, r,
                  Err("DataValidationError", StrExc(c), "", "", "", ""))
    ELSE IF IsInstance(c.kind, "SQLAlchemyError")
         THEN RollbackThenRaise(c, r,
                  Err("TransactionError", StrExc(c), "", "", "", ""))
    ELSE IF IsInstance(c.kind, "Exception")
         THEN [calls |-> <<Call("commit", c)>>,
               raised |-> Err("UnknownTransactionError", StrExc(c), "", "", "", "")]
    ELSE [calls |-> <<Call("commit", c)>>, raised |-> c]

\* UnitOfWork.commit(): c is the outcome of session.commit(), r the outcome
\* of the session.rollback() an except branch awaits
commit(c, r) ==
    IF c = NoExc THEN [calls |-> <<Call("commit", c)>>, raised |-> NoExc]
    ELSE IF IsInstance(c.kind, "IntegrityError")
         THEN RollbackThenRaise(c, r, ClassifyIntegrity(c))
    ELSE IF IsInstance(c.kind, "DataError")
         THEN RollbackThenRaise(c, r,
                  Err("DataValidationError", StrExc(c), "", "", "", ""))
    ELSE IF IsInstance(c.kind, "SQLAlchemyError")
         THEN RollbackThenRaise(c, r,
                  Err("TransactionError", StrExc(c), "", "", "", ""))
    ELSE IF IsInstance(c.kind, "Exception")
         THEN RollbackThenRaise(c, r,
                  Err("UnknownTransactionError", StrExc(c), "", "", "", ""))
    ELSE [calls |-> <<Call("commit", c)>>, raised |-> c]

\* UnitOfWork.rollback()
rollback(r) == [calls |-> <<Call("rollback", r)>>, raised |-> r]

\* __aexit__ that commits whatever left the body (the exc_type test dropped)
aexitAlwaysCommits(exc, c, r, cl) ==
    LET try == commit(c, r) IN
    [calls |-> try.calls \o <<Call("close", cl)>>,
     raised |-> IF cl # NoExc THEN cl ELSE try.raised,
     commitFault |-> c,
     commitRaised |-> try.raised,
     ret |-> FALSE]

\* __aexit__ without try/finally: close() only runs when nothing was raised
aexitCloseOnSuccessOnly(exc, c, r, cl) ==
    LET try == IF exc # NoExc THEN rollback(r) ELSE commit(c, r) IN
    [calls |-> IF try.raised # NoExc THEN try.calls
               ELSE try.calls \o <<Call("close", cl)>>,
     raised |-> IF try.raised # NoExc THEN try.raised ELSE cl,
     commitFault |-> IF exc # NoExc THEN NoExc ELSE c,
     commitRaised |-> IF exc # NoExc THEN NoExc ELSE try.raised,
     ret |-> FALSE]

\* __aexit__ that rolls back after every commit, successful or not
aexitRollbackAfterCommit(exc, c, r, cl) ==
    LET try == IF exc # NoExc THEN rollback(r)
               ELSE IF c = NoExc
                    THEN [calls |-> <<Call("commit", c), Call("rollback", r)>>,
                          raised |-> r]
                    ELSE commit(c, r) IN
    [calls |-> try.calls \o <<Call("close", cl)>>,
     raised |-> IF cl # NoExc THEN cl ELSE try.raised,
     commitFault |-> IF exc # NoExc THEN NoExc ELSE c,
     commitRaised |-> IF exc # NoExc THEN NoExc ELSE try.raised,
     ret |-> FALSE]

\* __aexit__ that rolls back also when the body completed normally
aexitAlwaysRollsBack(exc, c, r, cl) ==
    LET try == rollback(r) IN
    [calls |-> try.calls \o <<Call("close", cl)>>,
     raised |-> IF cl # NoExc THEN cl ELSE try.raised,
     commitFault |-> NoExc,
     commitRaised |-> NoExc,
     ret |-> FALSE]

\* __aexit__ that returns True: the body's exception is suppressed
aexitSuppresses(exc, c, r, cl) ==
    LET try == IF exc # NoExc THEN rollback(r) ELSE commit(c, r) IN
    [calls |-> try.calls \o <<Call("close", cl)>>,
     raised |-> IF cl # NoExc THEN cl ELSE try.raised,
     commitFault |-> IF exc # NoExc THEN NoExc ELSE c,
     commitRaised |-> IF exc # NoExc THEN NoExc ELSE try.raised,
     ret |-> TRUE]

\* UnitOfWork.__aexit__(exc_type, ...): exc is the exception leaving the body
\* (NoExc on normal exit); c, r, cl are the outcomes of session.commit,
\* session.rollback and session.close.  ret is the value returned to the
\* `async with` statement (None: the body's exception is not suppressed).
__aexit__(exc, c, r, cl) ==
    LET try == IF exc # NoExc THEN rollback(r) ELSE commit(c, r) IN
    [calls |-> try.calls \o <<Call("close", cl)>>,
     raised |-> IF cl # NoExc THEN cl ELSE try.raised,
     commitFault |-> IF exc # NoExc THEN NoExc ELSE c,
     commitRaised |-> IF exc # NoExc THEN NoExc ELSE try.raised,
     ret |-> FALSE]

\* the `async with` statement around __aexit__: what its caller sees
AsyncWith(exc, x) ==
    IF x.raised # NoExc THEN x.raised
    ELSE IF exc # NoExc /\ ~x.ret THEN exc
    ELSE Returned

----------------------------------------------------------------------------
(* The schema of the repositories (tests/models.py) *)

NoModel == "None"

\* cls.model of a repository class
Model(repo) == IF repo = "UserRepository" THEN "User" ELSE NoModel

Repos == {"UserRepository", "NoModelRepo"}

\* columns and relationships of User
Fields == {"id", "name", "position"}

Relations == {"profile"}

\* getattr(cls.model, "__name__", str(cls.model))
ModelName(repo) == Model(repo)

----------------------------------------------------------------------------
(* Inputs of the read operations.  A filter mapping is the sequence of its  *)
(* keys in insertion order (a dict: no key twice); the compared values do   *)
(* not take part in building.  An absent (None) joins/filters argument is   *)
(* the empty sequence, an absent order_by is NoOrder.                       *)

FilterKeys == {"name", "nonexistent_field", "notafield"}

JoinNames == {"profile", "nonexistent_relation", "notarelation"}

NoOrder == "None"

OrderKeys == {NoOrder, "name", "notafield"}

Injective(f) == \A i, j \in DOMAIN f : f[i] = f[j] => i = j

FilterMaps == {f \in SeqsUpTo(FilterKeys, MaxFilters) : Injective(f)}

JoinLists == SeqsUpTo(JoinNames, MaxJoins)

\* skip / limit: absent, an integer, or a value that is no integer
PageVal(t, v) == [t |-> t, v |-> v]

NoPage == PageVal("none", 0)

PageVals == {NoPage, PageVal("int", 1), PageVal("int", -1), PageVal("str", 0)}

ExecuteOutcomes ==
    {NoExc} \cup
    {Fault(k, FALSE, <<>>, <<"check">>) :
        k \in {"DataError", "StatementError", "RuntimeError", "CancelledError"}}

----------------------------------------------------------------------------
(* Query Builder (src/query/builder.py is not part of the sources: the     *)
(* steps follow section 4.3 of the specification)                          *)

\* select(cls.model)
select(model) ==
    [model |-> model, proj |-> "entity", joins |-> <<>>, where |-> <<>>,
     order |-> NoOrder, offset |-> NoPage, limit |-> NoPage]

Min(S) == CHOOSE m \in S : \A n \in S : m <= n

Built(plan) == [plan |-> plan, raised |-> NoExc]

Failed(plan, err) == [plan |-> plan, raised |-> err]

\* each relation in order: the first that does not resolve is reported
apply_joins(stmt, joins, model_name) ==
    LET bad == {i \in 1..Len(joins) : joins[i] \notin Relations} IN
    IF bad = {} THEN Built([stmt EXCEPT !.joins = stmt.joins \o joins])
    ELSE Failed(stmt, Err("RelationNotFoundError", <<>>, "", model_name, "",
                          joins[Min(bad)]))

\* each key in order: the first that does not resolve is reported
apply_filters(stmt, filters, model_name) ==
    LET bad == {i \in 1..Len(filters) : filters[i] \notin Fields} IN
    IF bad = {} THEN Built([stmt EXCEPT !.where = stmt.where \o filters])
    ELSE Failed(stmt, Err("FieldNotFoundError", <<>>, "", model_name,
                          filters[Min(bad)], ""))

apply_order_by(stmt, order_by, model_name) ==
    IF order_by = NoOrder THEN Built(stmt)
    ELSE IF order_by \in Fields THEN Built([stmt EXCEPT !.order = order_by])
    ELSE Failed(stmt, Err("OrderByFieldError", <<>>, "", model_name, order_by, ""))

ValidPage(p) == p.t = "none" \/ (p.t = "int" /\ p.v >= 0)

apply_pagination(stmt, skip, limit, model_name) ==
    IF ~ValidPage(skip)
    THEN Failed(stmt, Err("PaginationParameterError", <<>>, "", model_name, "skip", ""))
    ELSE IF ~ValidPage(limit)
    THEN Failed(stmt, Err("PaginationParameterError", <<>>, "", model_name, "limit", ""))
    ELSE Built([stmt EXCEPT !.offset = skip, !.limit = limit])

----------------------------------------------------------------------------
(* Query execution and the read operations *)

NoPlan == [select("") EXCEPT !.proj = "none"]

\* what an operation did: the session calls it made, what it raised, and the
\* plan it handed to session.execute (NoPlan when it executed nothing)
Done(cs, raised, plan) == [calls |-> cs, raised |-> raised, executed |-> plan]

\* the try/except without its first clause: every Exception is unknown
ExecuteWithoutStatementClause(stmt, x, model_name) ==
    [calls |-> <<Call("execute", x)>>,
     raised |-> IF x = NoExc THEN NoExc
                ELSE IF IsInstance(x.kind, "Exception")
                     THEN Err("QueryExecutionError", StrExc(x), "(unknown error)",
                              model_name, "", "")
                ELSE x,
     executed |-> stmt]

\* the try/except around `await asession.execute(stmt)`: x is the outcome of
\* session.execute
Execute(stmt, x, model_name) ==
    Done(<<Call("execute", x)>>,
         IF x = NoExc THEN NoExc
         ELSE IF IsInstance(x.kind, "StatementError") \/ IsInstance(x.kind, "DataError")
              THEN Err("QueryExecutionError", StrExc(x), "(data/type issue)",
                       model_name, "", "")
         ELSE IF IsInstance(x.kind, "Exception")
              THEN Err("QueryExecutionError", StrExc(x), "(unknown error)",
                       model_name, "", "")
         ELSE x,
         stmt)

\* QueryExecutor.execute
QueryExecutor_execute(stmt, x, model_name) == Execute(stmt, x, model_name)

\* the `if cls.model is None: raise RepositoryUsageError(...)` of an operation
UsageError(repo) ==
    Done(<<>>,
         Err("RepositoryUsageError", <<>>, "repository must define model attribute",
             "", "", ""),
         NoPlan)

\* runs the building steps in order up to the first that fails
RECURSIVE Build(_, _)
Build(stmt, stepsToRun) ==
    IF stepsToRun = <<>> THEN Built(stmt)
    ELSE LET s == Head(stepsToRun)
             b == CASE s.step = "joins" -> apply_joins(stmt, s.joins, s.name)
                    [] s.step = "filters" -> apply_filters(stmt, s.filters, s.name)
                    [] s.step = "order" -> apply_order_by(stmt, s.order_by, s.name)
                    [] s.step = "page" ->
                           apply_pagination(stmt, s.skip, s.limit, s.name)
         IN IF b.raised # NoExc THEN b ELSE Build(b.plan, Tail(stepsToRun))

JoinStep(joins, n) == [step |-> "joins", joins |-> joins, name |-> n]

FilterStep(filters, n) == [step |-> "filters", filters |-> filters, name |-> n]

OrderStep(order_by, n) == [step |-> "order", order_by |-> order_by, name |-> n]

PageStep(skip, limit, n) == [step |-> "page", skip |-> skip, limit |-> limit, name |-> n]

\* get_one applying the filters before the joins
get_oneFiltersFirst(repo, filters, joins, x) ==
    IF Model(repo) = NoModel THEN UsageError(repo)
    ELSE LET n == ModelName(repo)
             b == Build(select(Model(repo)), <<FilterStep(filters, n), JoinStep(joins, n)>>)
         IN IF b.raised # NoExc THEN Done(<<>>, b.raised, NoPlan)
            ELSE Execute(b.plan, x, n)

\* get_one without the filter step
get_oneWithoutFilters(repo, filters, joins, x) ==
    IF Model(repo) = NoModel THEN UsageError(repo)
    ELSE LET n == ModelName(repo)
             b == Build(select(Model(repo)), <<JoinStep(joins, n)>>)
         IN IF b.raised # NoExc THEN Done(<<>>, b.raised, NoPlan)
            ELSE Execute(b.plan, x, n)

\* ReadMixin.get_one
get_one(repo, filters, joins, x) ==
    IF Model(repo) = NoModel THEN UsageError(repo)
    ELSE LET n == ModelName(repo)
             b == Build(select(Model(repo)), <<JoinStep(joins, n), FilterStep(filters, n)>>)
         IN IF b.raised # NoExc THEN Done(<<>>, b.raised, NoPlan)
            ELSE Execute(b.plan, x, n)

\* list applying the filters before the joins
listFiltersBeforeJoins(repo, filters, order_by, skip, limit, joins, x) ==
    IF Model(repo) = NoModel THEN UsageError(repo)
    ELSE LET n == ModelName(repo)
             b == Build(select(Model(repo)),
                        <<FilterStep(filters, n), JoinStep(joins, n),
                          OrderStep(order_by, n), PageStep(skip, limit, n)>>)
         IN IF b.raised # NoExc THEN Done(<<>>, b.raised, NoPlan)
            ELSE Execute(b.plan, x, n)

\* list checking skip and limit only after it has executed the statement
listPaginatesAfterExecute(repo, filters, order_by, skip, limit, joins, x) ==
    IF Model(repo) = NoModel THEN UsageError(repo)
    ELSE LET n == ModelName(repo)
             b == Build(select(Model(repo)),
                        <<JoinStep(joins, n), FilterStep(filters, n),
                          OrderStep(order_by, n)>>)
             p == apply_pagination(b.plan, skip, limit, n)
             e == Execute(b.plan, x, n)
         IN IF b.raised # NoExc THEN Done(<<>>, b.raised, NoPlan)
            ELSE IF p.raised # NoExc THEN Done(e.calls, p.raised, e.executed)
            ELSE Execute(p.plan, x, n)

\* list without the pagination step
listSkipsPagination(repo, filters, order_by, skip, limit, joins, x) ==
    IF Model(repo) = NoModel THEN UsageError(repo)
    ELSE LET n == ModelName(repo)
             b == Build(select(Model(repo)),
                        <<JoinStep(joins, n), FilterStep(filters, n),
                          OrderStep(order_by, n)>>)
         IN IF b.raised # NoExc THEN Done(<<>>, b.raised, NoPlan)
            ELSE Execute(b.plan, x, n)

\* list handing limit to the builder as skip, and skip as limit
listSwapsSkipAndLimit(repo, filters, order_by, skip, limit, joins, x) ==
    IF Model(repo) = NoModel THEN UsageError(repo)
    ELSE LET n == ModelName(repo)
             b == Build(select(Model(repo)),
                        <<JoinStep(joins, n), FilterStep(filters, n),
                          OrderStep(order_by, n), PageStep(limit, skip, n)>>)
         IN IF b.raised # NoExc THEN Done(<<>>, b.raised, NoPlan)
            ELSE Execute(b.plan, x, n)

\* list ordering before it applies the filters
listOrdersBeforeFilters(repo, filters, order_by, skip, limit, joins, x) ==
    IF Model(repo) = NoModel THEN UsageError(repo)
    ELSE LET n == ModelName(repo)
             b == Build(select(Model(repo)),
                        <<JoinStep(joins, n), OrderStep(order_by, n),
                          FilterStep(filters, n), PageStep(skip, limit, n)>>)
         IN IF b.raised # NoExc THEN Done(<<>>, b.raised, NoPlan)
            ELSE Execute(b.plan, x, n)

\* list building on the plan of the read operation before it (a statement
\* kept on the class) instead of a fresh select
listKeepsLastPlan(repo, filters, order_by, skip, limit, joins, x) ==
    IF Model(repo) = NoModel THEN UsageError(repo)
    ELSE LET n == ModelName(repo)
             kept == IF history # <<>> /\ history[Len(history)].plan # NoPlan
                     THEN history[Len(history)].plan
                     ELSE select(Model(repo))
             b == Build(kept,
                        <<JoinStep(joins, n), FilterStep(filters, n),
                          OrderStep(order_by, n), PageStep(skip, limit, n)>>)
         IN IF b.raised # NoExc THEN Done(<<>>, b.raised, NoPlan)
            ELSE Execute(b.plan, x, n)

\* ReadMixin.list
list(repo, filters, order_by, skip, limit, joins, x) ==
    IF Model(repo) = NoModel THEN UsageError(repo)
    ELSE LET n == ModelName(repo)
             b == Build(select(Model(repo)),
                        <<JoinStep(joins, n), FilterStep(filters, n),
                          OrderStep(order_by, n), PageStep(skip, limit, n)>>)
         IN IF b.raised # NoExc THEN Done(<<>>, b.raised, NoPlan)
            ELSE Execute(b.plan, x, n)

\* ReadMixin.first (section 4.5: like get_one, honouring order_by)
first(repo, filters, order_by, joins, x) ==
    IF Model(repo) = NoModel THEN UsageError(repo)
    ELSE LET n == ModelName(repo)
             b == Build(select(Model(repo)),
                        <<JoinStep(joins, n), FilterStep(filters, n),
                          OrderStep(order_by, n)>>)
         IN IF b.raised # NoExc THEN Done(<<>>, b.raised, NoPlan)
            ELSE QueryExecutor_execute(b.plan, x, n)

\* ReadMixin.count (section 4.5: a count projection over the filters)
count(repo, filters, x) ==
    IF Model(repo) = NoModel THEN UsageError(repo)
    ELSE LET n == ModelName(repo)
             b == Build([select(Model(repo)) EXCEPT !.proj = "count"],
                        <<FilterStep(filters, n)>>)
         IN IF b.raised # NoExc THEN Done(<<>>, b.raised, NoPlan)
            ELSE QueryExecutor_execute(b.plan, x, n)

\* ReadMixin.exists (section 4.5: an existence projection)
exists(repo, filters, joins, x) ==
    IF Model(repo) = NoModel THEN UsageError(repo)
    ELSE LET n == ModelName(repo)
             b == Build([select(Model(repo)) EXCEPT !.proj = "exists"],
                        <<JoinStep(joins, n), FilterStep(filters, n)>>)
         IN IF b.raised # NoExc THEN Done(<<>>, b.raised, NoPlan)
            ELSE QueryExecutor_execute(b.plan, x, n)

----------------------------------------------------------------------------
(* Objects, and the inputs of create, update and delete.  An object is its *)
(* class and the attributes the operations write; a data or filter mapping *)
(* is the sequence of its items in insertion order (a dict: no key twice). *)

\* the value None of an attribute
Unset == "None"

Names == {"Ann", "Bob", "Cy"}

Positions == {"dev"}

Obj(cls, name, position) == [cls |-> cls, name |-> name, position |-> position]

NoneObj == Obj("None", Unset, Unset)

\* an instance of `class OtherModel: pass`
OtherObj == Obj("OtherModel", Unset, Unset)

Pair(k, v) == [key |-> k, value |-> v]

Keys(m) == [i \in 1..Len(m) |-> m[i].key]

\* m.get(k)
Get(m, k) ==
    IF \E i \in 1..Len(m) : m[i].key = k
    THEN m[CHOOSE i \in 1..Len(m) : m[i].key = k].value
    ELSE Unset

DataPairs ==
    {Pair("name", n) : n \in Names} \cup {Pair("position", p) : p \in Positions}
        \cup {Pair("nonexistent", "value")}

DataMaps == {m \in SeqsUpTo(DataPairs, MaxData) : Injective(Keys(m))}

\* hasattr(obj, key): the columns and relationships of a mapped instance
hasattr(obj, key) == obj.cls = "User" /\ key \in Fields \cup Relations

\* setattr that leaves the attribute as it is
setattrKeepsValue(obj, key, value) == obj

\* setattr(obj, key, value)
setattr(obj, key, value) == [obj EXCEPT ![key] = value]

\* cls.model(**data), when the constructor accepts data
Construct(model, data) == Obj(model, Get(data, "name"), Get(data, "position"))

\* how cls.model(**data) can end: the declarative constructor raises
\* TypeError for a keyword that is no attribute of the model; a validator of
\* the model can raise ValueError or anything else
ConstructOutcomes(data) ==
    IF \E i \in 1..Len(data) : data[i].key \notin Fields \cup Relations
    THEN {Fault("TypeError", FALSE, <<>>, <<"check">>)}
    ELSE {NoExc, Fault("ValueError", FALSE, <<>>, <<"check">>),
          Fault("RuntimeError", FALSE, <<>>, <<"check">>)}

\* how session.add(obj) can end
AddOutcomes == {NoExc, Fault("SQLAlchemyError", FALSE, <<>>, <<"check">>)}

\* how `await session.delete(obj)` can end
DeleteOutcomes == {NoExc, Fault("SQLAlchemyError", FALSE, <<>>, <<"check">>)}

\* what a write operation did: the session calls it made, what it raised,
\* and the object it returned or left behind
Wrote(cs, raised, obj) == [calls |-> cs, raised |-> raised, obj |-> obj]

----------------------------------------------------------------------------
(* create, update, delete *)

\* the except clauses of create raising without original=str(exc)
CreateFailedWithoutOriginal(exc, model_name) ==
    IF IsInstance(exc.kind, "TypeError") \/ IsInstance(exc.kind, "ValueError")
    THEN Err("DataValidationError", <<>>, "Invalid argument(s) for model",
             model_name, "", "")
    ELSE IF IsInstance(exc.kind, "Exception")
    THEN Err("UnknownTransactionError", <<>>, "Unexpected error while creating",
             model_name, "", "")
    ELSE exc

\* the except clauses of create: exc was raised inside its try block
CreateFailed(exc, model_name) ==
    IF IsInstance(exc.kind, "TypeError")
    THEN Err("DataValidationError", StrExc(exc), "Invalid argument(s) for model",
             model_name, "", "")
    ELSE IF IsInstance(exc.kind, "ValueError")
    THEN Err("DataValidationError", StrExc(exc), "Invalid value(s) for model",
             model_name, "", "")
    ELSE IF IsInstance(exc.kind, "Exception")
    THEN Err("UnknownTransactionError", StrExc(exc), "Unexpected error while creating",
             model_name, "", "")
    ELSE exc

\* create without the `except ValueError` clause
createWithoutValueErrorClause(repo, data, ctor, add) ==
    LET n == ModelName(repo)
        failed(exc) ==
            IF IsInstance(exc.kind, "TypeError") THEN CreateFailed(exc, n)
            ELSE IF IsInstance(exc.kind, "Exception")
            THEN Err("UnknownTransactionError", StrExc(exc),
                     "Unexpected error while creating", n, "", "")
            ELSE exc
    IN IF Model(repo) = NoModel THEN Wrote(<<>>, UsageError(repo).raised, NoneObj)
       ELSE IF ctor # NoExc THEN Wrote(<<>>, failed(ctor), NoneObj)
       ELSE IF add # NoExc THEN Wrote(<<Call("add", add)>>, failed(add), NoneObj)
       ELSE Wrote(<<Call("add", NoExc)>>, NoExc, Construct(Model(repo), data))

\* create flushing the session after it has added the object
createFlushes(repo, data, ctor, add) ==
    LET n == ModelName(repo) IN
    IF Model(repo) = NoModel THEN Wrote(<<>>, UsageError(repo).raised, NoneObj)
    ELSE IF ctor # NoExc THEN Wrote(<<>>, CreateFailed(ctor, n), NoneObj)
    ELSE IF add # NoExc THEN Wrote(<<Call("add", add)>>, CreateFailed(add, n), NoneObj)
    ELSE Wrote(<<Call("add", NoExc), Call("flush", NoExc)>>, NoExc,
               Construct(Model(repo), data))

\* CreateMixin.create: ctor is the outcome of cls.model(**data), add that of
\* asession.add(obj)
create(repo, data, ctor, add) ==
    LET n == ModelName(repo) IN
    IF Model(repo) = NoModel THEN Wrote(<<>>, UsageError(repo).raised, NoneObj)
    ELSE IF ctor # NoExc THEN Wrote(<<>>, CreateFailed(ctor, n), NoneObj)
    ELSE IF add # NoExc THEN Wrote(<<Call("add", add)>>, CreateFailed(add, n), NoneObj)
    ELSE Wrote(<<Call("add", NoExc)>>, NoExc, Construct(Model(repo), data))

\* utils.validate_model_defined
validate_model_defined(repo) ==
    IF Model(repo) = NoModel
    THEN Err("RepositoryUsageError", <<>>, "repository must define model attribute",
             "", "", "")
    ELSE NoExc

\* utils.validate_object_to_update_defined: the text names the repository
\* class (cls.__name__), not the model
validate_object_to_update_defined(repo, obj) ==
    IF obj = NoneObj
    THEN Err("RepositoryUsageError", <<>>, "Object to update must be provided",
             "", "", "")
    ELSE NoExc

\* the loop `for key, value in data.items()` of update over the items left:
\* the error text holds the key and type(obj).__name__
RECURSIVE UpdateLoop(_, _)
UpdateLoop(obj, items) ==
    IF items = <<>> THEN Wrote(<<>>, NoExc, obj)
    ELSE LET key == Head(items).key
             value == Head(items).value
         IN IF hasattr(obj, key)
            THEN UpdateLoop(setattr(obj, key, value), Tail(items))
            ELSE Wrote(<<>>,
                       Err("DataValidationError", <<>>, "for model", obj.cls, key, ""),
                       obj)

\* update validating the object before the model
updateChecksObjectFirst(repo, obj, data) ==
    LET m == validate_model_defined(repo)
        o == validate_object_to_update_defined(repo, obj)
    IN IF o # NoExc THEN Wrote(<<>>, o, obj)
       ELSE IF m # NoExc THEN Wrote(<<>>, m, obj)
       ELSE UpdateLoop(obj, data)

\* UpdateMixin.update
update(repo, obj, data) ==
    LET m == validate_model_defined(repo)
        o == validate_object_to_update_defined(repo, obj)
    IN IF m # NoExc THEN Wrote(<<>>, m, obj)
       ELSE IF o # NoExc THEN Wrote(<<>>, o, obj)
       ELSE UpdateLoop(obj, data)

\* DeleteMixin.delete (section 4.5; the mixin is not part of the sources): x
\* is the outcome of `await session.delete(obj)`
delete(repo, obj, x) ==
    IF Model(repo) = NoModel THEN Wrote(<<>>, validate_model_defined(repo), obj)
    ELSE IF obj.cls # Model(repo)
    THEN Wrote(<<>>,
               Err("RepositoryUsageError", <<>>, "Expected instance of",
                   ModelName(repo), "", ""),
               obj)
    ELSE Wrote(<<Call("delete", x)>>, x, obj)

----------------------------------------------------------------------------
(* The database behind the session (section 6: execute(plan) -> rows): the *)
(* rows of users in insertion order.  name is UNIQUE; every record of this *)
(* model has a name, as the records of the tests have.                     *)

\* a row: its columns, and the data of the create call that made it
Row(obj, data) == [name |-> obj.name, position |-> obj.position, data |-> data]

\* what the session holds for its next flush
Staged(kind, obj, data) == [kind |-> kind, obj |-> obj, data |-> data]

\* the collation of the names
NameRank(n) == CASE n = "Ann" -> 1 [] n = "Bob" -> 2 [] n = "Cy" -> 3 [] OTHER -> 0

DbNames(rows) == {rows[i].name : i \in 1..Len(rows)}

\* the flush of a commit: what was staged takes effect on the rows; an
\* update (of a loaded object, s.obj before and s.data after it) rewrites
\* the row of that name, a delete removes it
RECURSIVE Flush(_, _)
Flush(rows, pend) ==
    IF pend = <<>> THEN rows
    ELSE LET s == Head(pend) IN
         Flush(CASE s.kind = "add" -> Append(rows, Row(s.obj, s.data))
                 [] s.kind = "update" ->
                        [i \in 1..Len(rows) |->
                            IF rows[i].name = s.obj.name THEN Row(s.data, s.data)
                            ELSE rows[i]]
                 [] OTHER -> SelectSeq(rows, LAMBDA r : r.name # s.obj.name),
               Tail(pend))

\* the flush inserts a name that a row or an earlier insert of it holds (a
\* flush emits its inserts before its deletes)
RECURSIVE Conflict(_, _)
Conflict(rows, pend) ==
    IF pend = <<>> THEN FALSE
    ELSE LET s == Head(pend) IN
         \/ s.kind = "add" /\ s.obj.name \in DbNames(rows)
         \/ Conflict(IF s.kind = "add" THEN Flush(rows, <<s>>) ELSE rows, Tail(pend))

\* how session.commit() can end on this database
DbCommitOutcomes(rows, pend) ==
    IF Conflict(rows, pend)
    THEN {Fault("IntegrityError", TRUE, <<"UNIQUE">>, <<"check">>)}
    ELSE {NoExc, Fault("SQLAlchemyError", FALSE, <<>>, <<"check">>)}

\* ORDER BY name
RECURSIVE OrderByName(_)
OrderByName(rows) ==
    IF rows = <<>> THEN <<>>
    ELSE LET i == CHOOSE i \in 1..Len(rows) :
                      \A j \in 1..Len(rows) :
                          NameRank(rows[i].name) <= NameRank(rows[j].name)
         IN <<rows[i]>> \o
            OrderByName(SubSeq(rows, 1, i - 1) \o SubSeq(rows, i + 1, Len(rows)))

\* the rows a plan selects: WHERE key = value for the keys of the plan (the
\* values are those of the filter mapping), ORDER BY, OFFSET, LIMIT
Fetch(plan, where, rows) ==
    LET hit == SelectSeq(rows, LAMBDA r :
                   \A i \in 1..Len(where) :
                       (\E j \in 1..Len(plan.where) : plan.where[j] = where[i].key)
                           => r[where[i].key] = where[i].value)
        sorted == IF plan.order = "name" THEN OrderByName(hit) ELSE hit
        from == IF plan.offset.t = "int" THEN plan.offset.v ELSE 0
        rest == SubSeq(sorted, from + 1, Len(sorted))
    IN IF plan.limit.t = "int"
       THEN SubSeq(rest, 1, IF plan.limit.v < Len(rest) THEN plan.limit.v ELSE Len(rest))
       ELSE rest

\* result.scalars().first(): None is the empty sequence
scalars_first(rows) == IF rows = <<>> THEN <<>> ELSE <<Head(rows)>>

\* result.scalars().all()
scalars_all(rows) == rows

----------------------------------------------------------------------------
(* The scope *)

\* the record of a UnitOfWork.commit() call: the outcome of session.commit()
\* and what the call raised to its caller
Committed(c, raised) == [done |-> TRUE, fault |-> c, raised |-> raised]

NoCommit == [done |-> FALSE, fault |-> NoExc, raised |-> NoExc]

\* the record of a repository call: its arguments and what it did
Op(op, repo, filters, order_by, skip, limit, joins, did) ==
    [op |-> op, repo |-> repo, filters |-> filters, order_by |-> order_by,
     skip |-> skip, limit |-> limit, joins |-> joins, did |-> did]

NoOp == Op("none", "", <<>>, NoOrder, NoPage, NoPage, <<>>, Done(<<>>, NoExc, NoPlan))

\* the record of a create / update / delete call: its arguments, the
\* outcome of the constructor or of session.delete, and what it did
WriteOp(op, repo, obj, data, fault, did) ==
    [op |-> op, repo |-> repo, obj |-> obj, data |-> data, fault |-> fault,
     did |-> did]

NoWrite == WriteOp("none", "", NoneObj, <<>>, NoExc, Wrote(<<>>, NoExc, NoneObj))

\* the UnitOfWork instances of the interleaved scopes
UnitsOfWork == {"uow1", "uow2"}

\* UnitOfWork.__init__ of an instance: self.session is None (0), no scope
\* entered yet
NoScope == [pc |-> "Idle", session |-> 0, scope |-> 0, exc |-> NoExc]

Init ==
    /\ pc = "Idle"
    /\ session = 0
    /\ calls = <<>>
    /\ steps = 0
    /\ pending = NoExc
    /\ bodyExc = NoExc
    /\ outcome = NoExc
    /\ lastCommit = NoCommit
    /\ lastOp = NoOp
    /\ lastWrite = NoWrite
    /\ staged = <<>>
    /\ db = <<>>
    /\ result = <<>>
    /\ lastFault = NoExc
    /\ history = <<>>
    /\ uows = [u \in UnitsOfWork |-> NoScope]
    /\ slog = <<>>

\* UnitOfWork.__aenter__
Enter ==
    /\ pc = "Idle"
    /\ pc' = "Body"
    /\ session' = session + 1
    /\ UNCHANGED <<calls, steps, pending, bodyExc, outcome, lastCommit, lastOp,
                   lastWrite, staged, db, result,
                   lastFault, history, uows, slog>>

CanStep == pc = "Body" /\ pending = NoExc /\ steps < MaxBodySteps

\* the body awaits a repository operation on uow.session
Await(o) ==
    /\ pc' = "Op"
    /\ calls' = calls \o By("body", o.did.calls)
    /\ pending' = o.did.raised
    /\ steps' = steps + 1
    /\ lastOp' = o
    /\ UNCHANGED <<session, bodyExc, outcome, lastCommit,
                   lastWrite, staged, db, result,
                   lastFault, history, uows, slog>>

BodyGetOne ==
    /\ CanStep
    /\ \E repo \in Repos, filters \in FilterMaps, joins \in JoinLists,
          x \in ExecuteOutcomes :
           Await(Op("get_one", repo, filters, NoOrder, NoPage, NoPage, joins,
                    get_one(repo, filters, joins, x)))

BodyList ==
    /\ CanStep
    /\ \E repo \in Repos, filters \in FilterMaps, order_by \in OrderKeys,
          skip \in PageVals, limit \in PageVals, joins \in JoinLists,
          x \in ExecuteOutcomes :
           Await(Op("list", repo, filters, order_by, skip, limit, joins,
                    list(repo, filters, order_by, skip, limit, joins, x)))

BodyFirst ==
    /\ CanStep
    /\ \E repo \in Repos, filters \in FilterMaps, order_by \in OrderKeys,
          joins \in JoinLists, x \in ExecuteOutcomes :
           Await(Op("first", repo, filters, order_by, NoPage, NoPage, joins,
                    first(repo, filters, order_by, joins, x)))

BodyCount ==
    /\ CanStep
    /\ \E repo \in Repos, filters \in FilterMaps, x \in ExecuteOutcomes :
           Await(Op("count", repo, filters, NoOrder, NoPage, NoPage, <<>>,
                    count(repo, filters, x)))

BodyExists ==
    /\ CanStep
    /\ \E repo \in Repos, filters \in FilterMaps, joins \in JoinLists,
          x \in ExecuteOutcomes :
           Await(Op("exists", repo, filters, NoOrder, NoPage, NoPage, joins,
                    exists(repo, filters, joins, x)))

\* the body awaits uow.commit()
BodyCommit ==
    /\ CanStep
    /\ \E c \in CommitOutcomes, r \in RollbackOutcomes :
          LET x == commit(c, r) IN
          /\ calls' = calls \o By("body", x.calls)
          /\ pending' = x.raised
          /\ lastCommit' = Committed(c, x.raised)
    /\ pc' = "Op"
    /\ steps' = steps + 1
    /\ UNCHANGED <<session, bodyExc, outcome, lastOp,
                   lastWrite, staged, db, result,
                   lastFault, history, uows, slog>>

\* the awaited call hands control back to the body, with its result or with
\* the exception in pending
Resume ==
    /\ pc = "Op"
    /\ pc' = "Body"
    /\ lastOp' = NoOp
    /\ lastCommit' = NoCommit
    /\ lastWrite' = NoWrite
    /\ result' = <<>>
    /\ lastFault' = NoExc
    /\ UNCHANGED <<session, calls, steps, pending, bodyExc, outcome, staged, db,
                   history, uows, slog>>

\* the body awaits uow.rollback()
BodyRollback ==
    /\ CanStep
    /\ \E r \in RollbackOutcomes :
          LET x == rollback(r) IN
          /\ calls' = calls \o By("body", x.calls)
          /\ pending' = x.raised
    /\ steps' = steps + 1
    /\ UNCHANGED <<pc, session, bodyExc, outcome, lastCommit, lastOp,
                   lastWrite, staged, db, result,
                   lastFault, history, uows, slog>>

\* the body itself raises, or the task is cancelled at an await of its own
BodyRaise ==
    /\ CanStep
    /\ \E k \in {"AppError", "CancelledError"} :
          pending' = Fault(k, FALSE, <<>>, <<>>)
    /\ steps' = steps + 1
    /\ UNCHANGED <<pc, session, calls, bodyExc, outcome, lastCommit, lastOp,
                   lastWrite, staged, db, result,
                   lastFault, history, uows, slog>>

\* the body catches the exception of its last statement (try/except,
\* pytest.raises) and goes on
BodyCatch ==
    /\ pc = "Body"
    /\ pending # NoExc
    /\ IsInstance(pending.kind, "Exception")
    /\ pending' = NoExc
    /\ UNCHANGED <<pc, session, calls, steps, bodyExc, outcome, lastCommit, lastOp,
                   lastWrite, staged, db, result,
                   lastFault, history, uows, slog>>

\* the scope is left, normally or by the pending exception: __aexit__ runs
\* and the `async with` statement completes
Exit ==
    /\ pc = "Body"
    /\ \E c \in CommitOutcomes, r \in RollbackOutcomes, cl \in CloseOutcomes :
          LET x == __aexit__(pending, c, r, cl) IN
          /\ calls' = calls \o By("exit", x.calls)
          /\ outcome' = AsyncWith(pending, x)
          /\ lastCommit' = IF pending = NoExc
                           THEN Committed(x.commitFault, x.commitRaised)
                           ELSE NoCommit
    /\ bodyExc' = pending
    /\ pending' = NoExc
    /\ pc' = "Closed"
    /\ UNCHANGED <<session, steps, lastOp,
                   lastWrite, staged, db, result,
                   lastFault, history, uows, slog>>

Next ==
    \/ Enter
    \/ BodyGetOne
    \/ BodyList
    \/ BodyFirst
    \/ BodyCount
    \/ BodyExists
    \/ BodyCommit
    \/ Resume
    \/ BodyRollback
    \/ BodyRaise
    \/ BodyCatch
    \/ Exit

Spec == Init /\ [][Next]_vars

----------------------------------------------------------------------------
(* RepoSpec: the eight repository operations called in one scope *)

\* the filter mappings, join lists and fetched objects of these calls
FewFilters == {<<>>, <<"name">>, <<"nonexistent_field">>}

FewJoins == {<<>>, <<"profile">>, <<"nonexistent_relation">>}

FewPages == {NoPage, PageVal("int", 1), PageVal("str", 0)}

UpdateObjs == {NoneObj, OtherObj, Obj("User", "Ann", Unset)}

\* the body awaits a write operation on uow.session: w is the call and what
\* it did, pend what the session holds afterwards
AwaitWrite(w, pend) ==
    /\ pc' = "Op"
    /\ calls' = calls \o By("body", w.did.calls)
    /\ pending' = w.did.raised
    /\ steps' = steps + 1
    /\ lastWrite' = w
    /\ staged' = pend
    /\ UNCHANGED <<session, bodyExc, outcome, lastCommit, lastOp, db, result,
                   lastFault, history, uows, slog>>

\* how session.execute can end under these calls: also with an integrity
\* fault (a StatementError by inheritance) and a plain SQLAlchemyError
RepoExecuteOutcomes ==
    ExecuteOutcomes \cup
    {Fault("IntegrityError", TRUE, <<"UNIQUE">>, <<"check">>),
     Fault("SQLAlchemyError", FALSE, <<>>, <<"check">>)}

\* the body awaits a read operation: o is the call and what it did, x what
\* its session.execute raised when it made that call
AwaitExecuted(o, x) ==
    /\ pc' = "Op"
    /\ calls' = calls \o By("body", o.did.calls)
    /\ pending' = o.did.raised
    /\ steps' = steps + 1
    /\ lastOp' = o
    /\ lastFault' = IF o.did.calls = <<>> THEN NoExc ELSE x
    /\ UNCHANGED <<session, bodyExc, outcome, lastCommit,
                   lastWrite, staged, db, result, history, uows, slog>>

\* the staging call m of a write operation returned
Returns(m, did) == \E i \in 1..Len(did.calls) : did.calls[i] = Call(m, NoExc)

Creating(maps) ==
    \E repo \in Repos, data \in maps :
        \E ctor \in ConstructOutcomes(data), add \in AddOutcomes :
            LET did == create(repo, data, ctor, add) IN
            AwaitWrite(WriteOp("create", repo, NoneObj, data, ctor, did),
                       IF Returns("add", did)
                       THEN Append(staged, Staged("add", did.obj,
                                Obj(Model(repo), Get(data, "name"), Get(data, "position"))))
                       ELSE staged)

CallCreate ==
    /\ CanStep
    /\ Creating(DataMaps)

CallUpdate ==
    /\ CanStep
    /\ \E repo \in Repos, obj \in UpdateObjs, data \in DataMaps :
           AwaitWrite(WriteOp("update", repo, obj, data, NoExc, update(repo, obj, data)),
                      staged)

CallDelete ==
    /\ CanStep
    /\ \E repo \in Repos, obj \in UpdateObjs, x \in DeleteOutcomes :
           LET did == delete(repo, obj, x) IN
           AwaitWrite(WriteOp("delete", repo, obj, <<>>, x, did),
                      IF Returns("delete", did)
                      THEN Append(staged, Staged("delete", obj, obj))
                      ELSE staged)

CallGetOne ==
    /\ CanStep
    /\ \E repo \in Repos, filters \in FewFilters, joins \in FewJoins,
          x \in RepoExecuteOutcomes :
           AwaitExecuted(Op("get_one", repo, filters, NoOrder, NoPage, NoPage, joins,
                    get_one(repo, filters, joins, x)), x)

CallList ==
    /\ CanStep
    /\ \E repo \in Repos, filters \in FewFilters, order_by \in OrderKeys,
          skip \in FewPages, limit \in FewPages, joins \in FewJoins,
          x \in RepoExecuteOutcomes :
           AwaitExecuted(Op("list", repo, filters, order_by, skip, limit, joins,
                    list(repo, filters, order_by, skip, limit, joins, x)), x)

CallFirst ==
    /\ CanStep
    /\ \E repo \in Repos, filters \in FewFilters, order_by \in OrderKeys,
          joins \in FewJoins, x \in RepoExecuteOutcomes :
           AwaitExecuted(Op("first", repo, filters, order_by, NoPage, NoPage, joins,
                    first(repo, filters, order_by, joins, x)), x)

CallCount ==
    /\ CanStep
    /\ \E repo \in Repos, filters \in FewFilters, x \in RepoExecuteOutcomes :
           AwaitExecuted(Op("count", repo, filters, NoOrder, NoPage, NoPage, <<>>,
                    count(repo, filters, x)), x)

CallExists ==
    /\ CanStep
    /\ \E repo \in Repos, filters \in FewFilters, joins \in FewJoins,
          x \in RepoExecuteOutcomes :
           AwaitExecuted(Op("exists", repo, filters, NoOrder, NoPage, NoPage, joins,
                    exists(repo, filters, joins, x)), x)

RepoNext ==
    \/ Enter
    \/ CallCreate
    \/ CallUpdate
    \/ CallDelete
    \/ CallGetOne
    \/ CallList
    \/ CallFirst
    \/ CallCount
    \/ CallExists
    \/ Resume
    \/ BodyCatch
    \/ Exit

RepoSpec == Init /\ [][RepoNext]_vars

----------------------------------------------------------------------------
(* DataSpec: scope after scope, each with its own UnitOfWork and session,  *)
(* over one database.  A scope reads while its session has nothing staged  *)
(* (no autoflush takes part); its exit commits what it staged.             *)

\* the data of the records: each has a name
NamedData == {m \in DataMaps : \E i \in 1..Len(m) : m[i].key = "name"}

\* the filter mappings of the reads, with their values
FilterPairs ==
    {Pair("name", n) : n \in Names} \cup {Pair("position", p) : p \in Positions}
        \cup {Pair("nonexistent_field", "value")}

Wheres == {<<>>} \cup {<<f>> : f \in FilterPairs}

PageArgs == {NoPage} \cup {PageVal("int", n) : n \in 0..MaxPage}

DbExecuteOutcomes == {NoExc, Fault("DataError", FALSE, <<>>, <<"check">>)}

\* the body awaits a read operation: o is the call and what it did, its
\* filters the mapping with its values; rows is what the call returned
AwaitRows(o, rows) ==
    /\ pc' = "Op"
    /\ calls' = calls \o By("body", o.did.calls)
    /\ pending' = o.did.raised
    /\ steps' = steps + 1
    /\ lastOp' = o
    /\ result' = IF o.did.raised = NoExc THEN rows ELSE <<>>
    /\ UNCHANGED <<session, bodyExc, outcome, lastCommit, lastWrite, staged, db,
                   lastFault, history, uows, slog>>

DbCreate ==
    /\ CanStep
    /\ Creating(NamedData)

DbGetOne ==
    /\ CanStep
    /\ staged = <<>>
    /\ \E repo \in Repos, where \in Wheres, joins \in {<<>>, <<"profile">>},
          x \in DbExecuteOutcomes :
           LET did == get_one(repo, Keys(where), joins, x) IN
           AwaitRows(Op("get_one", repo, where, NoOrder, NoPage, NoPage, joins, did),
                     scalars_first(Fetch(did.executed, where, db)))

DbList ==
    /\ CanStep
    /\ staged = <<>>
    /\ \E repo \in Repos, where \in {<<>>, <<Pair("position", "dev")>>},
          order_by \in OrderKeys, skip \in PageArgs, limit \in PageArgs,
          x \in DbExecuteOutcomes :
           LET did == list(repo, Keys(where), order_by, skip, limit, <<>>, x) IN
           AwaitRows(Op("list", repo, where, order_by, skip, limit, <<>>, did),
                     scalars_all(Fetch(did.executed, where, db)))

\* __aexit__ on this database: the commit inserts what the scope staged
DbExit ==
    /\ pc = "Body"
    /\ \E c \in DbCommitOutcomes(db, staged) :
          LET x == __aexit__(pending, c, NoExc, NoExc) IN
          /\ calls' = calls \o By("exit", x.calls)
          /\ outcome' = AsyncWith(pending, x)
          /\ lastCommit' = IF pending = NoExc
                           THEN Committed(x.commitFault, x.commitRaised)
                           ELSE NoCommit
          /\ db' = IF \E i \in 1..Len(x.calls) : x.calls[i] = Call("commit", NoExc)
                   THEN Flush(db, staged)
                   ELSE db
    /\ staged' = <<>>
    /\ bodyExc' = pending
    /\ pending' = NoExc
    /\ pc' = "Closed"
    /\ UNCHANGED <<session, steps, lastOp, lastWrite, result, lastFault, history, uows, slog>>

\* UnitOfWork(factory) for the next scope: __init__
NewScope ==
    /\ pc = "Closed"
    /\ pc' = "Idle"
    /\ session' = 0
    /\ calls' = <<>>
    /\ steps' = 0
    /\ bodyExc' = NoExc
    /\ outcome' = NoExc
    /\ lastCommit' = NoCommit
    /\ UNCHANGED <<pending, lastOp, lastWrite, staged, db, result,
                   lastFault, history, uows, slog>>

DataNext ==
    \/ Enter
    \/ DbCreate
    \/ DbGetOne
    \/ DbList
    \/ Resume
    \/ BodyCatch
    \/ DbExit
    \/ NewScope

DataSpec == Init /\ [][DataNext]_vars

----------------------------------------------------------------------------
(* TxSpec: scope after scope over one database, each scope creating,       *)
(* updating and deleting records, committing in its body or at its exit.   *)
(* An object that is updated or deleted was loaded from a committed row by *)
(* the scope; name is the key of a record, an update writes its position.  *)

\* the data of the records created here
TxData == {<<Pair("name", "Ann")>>, <<Pair("name", "Bob")>>}

\* the data of the updates
TxUpdates ==
    {<<Pair("position", "dev")>>,
     <<Pair("position", "dev"), Pair("nonexistent", "value")>>,
     <<Pair("nonexistent", "value")>>}

\* the instance the session loads for a row
Loaded(row) == Obj("User", row.name, row.position)

CanTx == pc = "Body" /\ pending = NoExc /\ steps < MaxTxSteps

TxCreate ==
    /\ CanTx
    /\ Creating(TxData)

\* update of a loaded object: the session holds the object, so the
\* attributes the call has set are written by the next flush, also when the
\* call raised after setting them
TxUpdate ==
    /\ CanTx
    /\ \E i \in 1..Len(db), data \in TxUpdates :
           LET obj == Loaded(db[i])
               did == update("UserRepository", obj, data)
           IN AwaitWrite(WriteOp("update", "UserRepository", obj, data, NoExc, did),
                         IF did.obj # obj
                         THEN Append(staged, Staged("update", obj, did.obj))
                         ELSE staged)

TxDelete ==
    /\ CanTx
    /\ \E i \in 1..Len(db), repo \in Repos, x \in DeleteOutcomes :
           LET obj == Loaded(db[i])
               did == delete(repo, obj, x)
           IN AwaitWrite(WriteOp("delete", repo, obj, <<>>, x, did),
                         IF Returns("delete", did)
                         THEN Append(staged, Staged("delete", obj, obj))
                         ELSE staged)

\* get_one by name in a scope that has staged nothing
TxGetOne ==
    /\ CanTx
    /\ staged = <<>>
    /\ \E where \in {<<Pair("name", "Ann")>>, <<Pair("nonexistent_field", "value")>>} :
           LET did == get_one("UserRepository", Keys(where), <<>>, NoExc) IN
           AwaitRows(Op("get_one", "UserRepository", where, NoOrder, NoPage, NoPage,
                        <<>>, did),
                     scalars_first(Fetch(did.executed, where, db)))

\* the body awaits uow.commit(): a session.commit that returns writes what
\* the scope has staged; a failed one is rolled back, which discards it
TxCommit ==
    /\ CanTx
    /\ \E c \in DbCommitOutcomes(db, staged) :
          LET x == commit(c, NoExc) IN
          /\ calls' = calls \o By("body", x.calls)
          /\ pending' = x.raised
          /\ lastCommit' = Committed(c, x.raised)
          /\ db' = IF c = NoExc THEN Flush(db, staged) ELSE db
    /\ staged' = <<>>
    /\ pc' = "Op"
    /\ steps' = steps + 1
    /\ UNCHANGED <<session, bodyExc, outcome, lastOp, lastWrite, result,
                   lastFault, history, uows, slog>>

TxNext ==
    \/ Enter
    \/ TxCreate
    \/ TxUpdate
    \/ TxDelete
    \/ TxGetOne
    \/ TxCommit
    \/ Resume
    \/ BodyCatch
    \/ DbExit
    \/ NewScope

TxSpec == Init /\ [][TxNext]_vars

----------------------------------------------------------------------------
(* BuildSpec: the read operations of one scope, one after the other, with   *)
(* the plan each has built.                                                *)

\* the arguments of these calls
BuildFilters == {<<"name">>, <<"nonexistent_field">>}

BuildJoins == {<<>>, <<"profile">>}

BuildOrders == {NoOrder, "name"}

BuildPages == {NoPage, PageVal("int", 1)}

\* what a read operation was called with, the plan it built and handed to
\* session.execute (NoPlan when a step failed) and the classification error
\* it raised
Built1(o) ==
    [op |-> o.op, repo |-> o.repo, filters |-> o.filters, order_by |-> o.order_by,
     skip |-> o.skip, limit |-> o.limit, joins |-> o.joins,
     plan |-> o.did.executed,
     raised |-> IF o.did.calls = <<>> THEN o.did.raised ELSE NoExc]

CanBuild == pc = "Body" /\ pending = NoExc /\ Len(history) < MaxReads

\* the body awaits a read operation and keeps what it built
AwaitBuilt(o) ==
    /\ pc' = "Op"
    /\ calls' = calls \o By("body", o.did.calls)
    /\ pending' = o.did.raised
    /\ steps' = steps + 1
    /\ lastOp' = o
    /\ history' = Append(history, Built1(o))
    /\ UNCHANGED <<session, bodyExc, outcome, lastCommit,
                   lastWrite, staged, db, result, lastFault, uows, slog>>

BuildGetOne ==
    /\ CanBuild
    /\ \E filters \in BuildFilters, joins \in BuildJoins, x \in DbExecuteOutcomes :
           AwaitBuilt(Op("get_one", "UserRepository", filters, NoOrder, NoPage, NoPage,
                         joins, get_one("UserRepository", filters, joins, x)))

BuildList ==
    /\ CanBuild
    /\ \E order_by \in BuildOrders, skip \in BuildPages, x \in DbExecuteOutcomes :
           AwaitBuilt(Op("list", "UserRepository", <<"name">>, order_by, skip, NoPage,
                         <<>>,
                         list("UserRepository", <<"name">>, order_by, skip, NoPage,
                              <<>>, x)))

BuildNext ==
    \/ Enter
    \/ BuildGetOne
    \/ BuildList
    \/ Resume
    \/ BodyCatch
    \/ DbExit

BuildSpec == Init /\ [][BuildNext]_vars

----------------------------------------------------------------------------
(* MultiSpec: several UnitOfWork instances over one session factory, their *)
(* scopes interleaved (one task each).  An instance that has closed can be *)
(* entered again; an instance is not entered while it is open.             *)

\* self._session_factory(): a new session at every call; made is the number
\* of sessions the factory has made so far, a session is its number
session_factory(made) == made + 1

\* __aenter__ taking the session the factory made first, when there is one
aenterSharesSession(self, made) ==
    [self EXCEPT !.pc = "Body", !.session = 1,
                 !.scope = @ + 1, !.exc = NoExc]

\* UnitOfWork.__aenter__ of the instance self: its scope counts the scopes
\* the instance has entered
__aenter__(self, made) ==
    [self EXCEPT !.pc = "Body", !.session = session_factory(made),
                 !.scope = @ + 1, !.exc = NoExc]

\* a call on a session: which session, the method, the instance and scope
\* that made it, and how it ended
On(sid, c, u, self) ==
    [session |-> sid, m |-> c.m, by |-> u, scope |-> self.scope, res |-> c.res]

\* the calls cs of instance u, made on self.session
OnSelf(cs, u, self) == [i \in 1..Len(cs) |-> On(self.session, cs[i], u, self)]

MultiEnter ==
    \E u \in UnitsOfWork :
        /\ uows[u].pc \in {"Idle", "Closed"}
        /\ session < MaxSessions
        /\ uows' = [uows EXCEPT ![u] = __aenter__(uows[u], session)]
        /\ session' = session + 1
        /\ slog' = Append(slog, On(uows'[u].session, Call("factory", NoExc), u, uows'[u]))
        /\ UNCHANGED <<pc, calls, steps, pending, bodyExc, outcome, lastCommit,
                       lastOp, lastWrite, staged, db, result, lastFault, history>>

\* the scope of u has made no call on its session yet
Fresh(u) ==
    ~\E i \in 1..Len(slog) :
        slog[i].by = u /\ slog[i].scope = uows[u].scope /\ slog[i].m # "factory"

\* the body of u awaits session.execute on uow.session
MultiExecute ==
    \E u \in UnitsOfWork :
        /\ uows[u].pc = "Body"
        /\ uows[u].exc = NoExc
        /\ Fresh(u)
        /\ slog' = slog \o OnSelf(<<Call("execute", NoExc)>>, u, uows[u])
        /\ UNCHANGED <<pc, session, calls, steps, pending, bodyExc, outcome,
                       lastCommit, lastOp, lastWrite, staged, db, result, lastFault,
                       history, uows>>

\* the body of u raises
MultiRaise ==
    \E u \in UnitsOfWork :
        /\ uows[u].pc = "Body"
        /\ uows[u].exc = NoExc
        /\ uows' = [uows EXCEPT ![u].exc = Fault("AppError", FALSE, <<>>, <<>>)]
        /\ UNCHANGED <<pc, session, calls, steps, pending, bodyExc, outcome,
                       lastCommit, lastOp, lastWrite, staged, db, result, lastFault,
                       history, slog>>

\* how session.commit can end in these scopes
MultiCommitOutcomes == {NoExc, Fault("IntegrityError", TRUE, <<"UNIQUE">>, <<>>)}

\* __aexit__ of the instance u: its calls go to self.session
MultiExit ==
    \E u \in UnitsOfWork, c \in MultiCommitOutcomes :
        /\ uows[u].pc = "Body"
        /\ slog' = slog \o OnSelf(__aexit__(uows[u].exc, c, NoExc, NoExc).calls,
                                  u, uows[u])
        /\ uows' = [uows EXCEPT ![u].pc = "Closed", ![u].exc = NoExc]
        /\ UNCHANGED <<pc, session, calls, steps, pending, bodyExc, outcome,
                       lastCommit, lastOp, lastWrite, staged, db, result, lastFault,
                       history>>

MultiNext ==
    \/ MultiEnter
    \/ MultiExecute
    \/ MultiRaise
    \/ MultiExit

MultiSpec == Init /\ [][MultiNext]_vars

----------------------------------------------------------------------------
(* Properties of the scope *)

IsMethod(m, c) == c.m = m

Count(m, cs) == Cardinality({i \in 1..Len(cs) : cs[i].m = m})

Has(m, cs) == Count(m, cs) > 0

\* the session calls made by __aexit__
ExitCalls == SelectSeq(calls, LAMBDA c : c.by = "exit")

\* the last session.commit call of the log was followed by a rollback that
\* returned
LastCommitRolledBack ==
    \E i \in 1..Len(calls) :
        /\ calls[i].m = "commit"
        /\ \A j \in (i + 1)..Len(calls) : calls[j].m # "commit"
        /\ i < Len(calls)
        /\ calls[i + 1].m = "rollback"
        /\ calls[i + 1].res = "ok"

\* C1: when an exception leaves the body, __aexit__ calls session.rollback
\* and does not call session.commit; when the body completes normally,
\* __aexit__ calls session.commit.
C1_ExitRollsBackOrCommits ==
    pc = "Closed" =>
        IF bodyExc # NoExc
        THEN Has("rollback", ExitCalls) /\ ~Has("commit", ExitCalls)
        ELSE Has("commit", ExitCalls)

C1_Witness ==
    /\ pc = "Closed"
    /\ bodyExc.kind = "AppError"
    /\ Has("rollback", ExitCalls)

\* C2: session.close is called exactly once per scope, as the last session
\* call before control returns to the caller, on every exit path (also when
\* session.commit or session.rollback raised), and never before the exit.
C2_CloseExactlyOnce ==
    /\ pc = "Closed" =>
          /\ Count("close", calls) = 1
          /\ calls[Len(calls)].m = "close"
          /\ calls[Len(calls)].by = "exit"
    /\ pc # "Closed" => Count("close", calls) = 0

C2_Witness ==
    /\ pc = "Closed"
    /\ \E i \in 1..Len(calls) :
          /\ calls[i].by = "exit"
          /\ calls[i].m = "rollback"
          /\ calls[i].res = "raise"
    /\ Count("close", calls) = 1

\* C3: every session.commit that raised an exception (of whatever class
\* below Exception) is directly followed by a session.rollback call, and
\* when UnitOfWork.commit raises a taxonomy error that rollback has already
\* been called, after the failed commit.
C3_RollbackAfterFailedCommit ==
    /\ \A i \in 1..Len(calls) :
          (calls[i].m = "commit" /\ calls[i].res = "raise") =>
              (i < Len(calls) /\ calls[i + 1].m = "rollback")
    /\ (lastCommit.done /\ lastCommit.fault # NoExc
            /\ Res(lastCommit.fault) = "raise") =>
          \E i \in 1..(Len(calls) - 1) :
              /\ calls[i].m = "commit"
              /\ calls[i].res = "raise"
              /\ calls[i + 1].m = "rollback"
    /\ (lastCommit.done /\ IsInstance(lastCommit.raised.kind, "RepositoryError")) =>
          LastCommitRolledBack

C3_Witness ==
    /\ lastCommit.done
    /\ lastCommit.fault.kind = "RuntimeError"
    /\ lastCommit.raised.kind = "UnknownTransactionError"
    /\ LastCommitRolledBack

\* C4 as stated: between entering the scope and releasing the session,
\* exactly one of session.commit and session.rollback is called, never both.
C4_ExactlyOneOfCommitAndRollback ==
    pc = "Closed" => Count("commit", calls) + Count("rollback", calls) = 1

\* C4 amended: __aexit__ calls session.commit or session.rollback, each at
\* most once; it calls both only when the commit failed, the rollback
\* directly after the failed commit, and never rolls back after a commit that
\* succeeded.
C4_ExitTerminalAction ==
    pc = "Closed" =>
        LET e == ExitCalls
            nc == Count("commit", e)
            nr == Count("rollback", e)
        IN /\ nc <= 1
           /\ nr <= 1
           /\ nc + nr >= 1
           /\ (nc = 1 /\ nr = 1) =>
                 (e[1].m = "commit" /\ e[1].res = "raise" /\ e[2].m = "rollback")
           /\ (nc = 1 /\ e[1].res = "ok") => nr = 0

C4_Witness ==
    /\ pc = "Closed"
    /\ Count("commit", ExitCalls) = 1
    /\ Count("rollback", ExitCalls) = 1

\* the text of the underlying driver error mentions one of the words,
\* whatever the case (an absent driver error mentions nothing)
Mentions(f, ws) == f.hasOrig /\ \E i \in 1..Len(f.orig) : f.orig[i] \in ws

UniqueWords == {"unique", "UNIQUE"}

ForeignKeyWords == {"foreign key", "FOREIGN KEY"}

\* the kind section 4.6 gives a commit fault
ExpectedKind(f) ==
    CASE f.kind = "IntegrityError" /\ Mentions(f, UniqueWords) -> "UniqueViolation"
      [] f.kind = "IntegrityError" /\ ~Mentions(f, UniqueWords)
            /\ Mentions(f, ForeignKeyWords) -> "ForeignKeyViolation"
      [] f.kind = "IntegrityError" /\ ~Mentions(f, UniqueWords)
            /\ ~Mentions(f, ForeignKeyWords) -> "TransactionError"
      [] f.kind = "DataError" -> "DataValidationError"
      [] f.kind = "SQLAlchemyError" -> "TransactionError"
      [] f.kind = "RuntimeError" -> "UnknownTransactionError"

\* a UnitOfWork.commit() whose session.commit raised an exception and whose
\* rollback returned: the call raises its translation
CommitTranslated ==
    /\ lastCommit.done
    /\ lastCommit.fault # NoExc
    /\ Res(lastCommit.fault) = "raise"
    /\ LastCommitRolledBack

C6_GenericIntegrityIsDataValidation ==
    (/\ CommitTranslated
     /\ lastCommit.fault.kind = "IntegrityError"
     /\ ~lastCommit.fault.hasOrig
     /\ lastCommit.fault.msg = <<"check">>) =>
        IsInstance(lastCommit.raised.kind, "DataValidationError")

\* C7: when the task is cancelled in a session.execute or session.commit of
\* the scope, the scope still calls session.rollback and then session.close
\* before the cancellation reaches the caller.
C7_CancelledScopeRollsBack ==
    pc = "Closed" =>
        \A i \in 1..Len(calls) :
            (calls[i].res = "cancel" /\ calls[i].m \in {"execute", "commit"}) =>
                \E j \in (i + 1)..Len(calls), k \in (i + 1)..Len(calls) :
                    /\ j < k
                    /\ calls[j].m = "rollback"
                    /\ calls[k].m = "close"

\* the exception classes the session raised, as the driver raised them
DriverKinds ==
    {"IntegrityError", "DataError", "StatementError", "SQLAlchemyError", "RuntimeError"}

\* C8: no exception raised by session.execute, session.commit or
\* session.rollback reaches a caller untranslated: what the body receives
\* from an operation and what the caller of the scope receives is never a
\* driver exception.
C8_NoUntranslatedDriverException ==
    /\ pending.kind \notin DriverKinds
    /\ outcome.kind \notin DriverKinds

----------------------------------------------------------------------------
(* Properties of the read operations *)

InvalidKeys(filters) == {i \in 1..Len(filters) : filters[i] \notin Fields}

JoinsResolve(joins) == \A i \in 1..Len(joins) : joins[i] \in Relations

ReadDone == lastOp.op # "none" /\ Model(lastOp.repo) # NoModel

UnknownJoins(joins) == {i \in 1..Len(joins) : joins[i] \notin Relations}

\* C11: a read operation on a configured repository whose join list holds
\* an unknown relation name raises RelationNotFoundError, whatever its other
\* arguments are; the error names the model and the first unknown relation
\* of the list in list order, and nothing is executed.
C11_FirstUnknownRelationReported ==
    (ReadDone /\ UnknownJoins(lastOp.joins) # {}) =>
        LET e == lastOp.did.raised IN
        /\ e.kind = "RelationNotFoundError"
        /\ e.rel = lastOp.joins[Min(UnknownJoins(lastOp.joins))]
        /\ e.model = "User"
        /\ lastOp.did.calls = <<>>

\* a list whose two relations are both unknown, with an unknown filter key
C11_Witness ==
    /\ lastOp.op = "list"
    /\ lastOp.repo = "UserRepository"
    /\ Len(lastOp.joins) = 2
    /\ UnknownJoins(lastOp.joins) = {1, 2}
    /\ lastOp.joins[1] # lastOp.joins[2]
    /\ InvalidKeys(lastOp.filters) # {}
    /\ lastOp.did.raised.kind = "RelationNotFoundError"
    /\ lastOp.did.raised.rel = lastOp.joins[1]

\* every building step of the last read operation succeeds on its arguments
\* (an argument the operation does not take is recorded as absent)
AllStepsSucceed ==
    /\ Model(lastOp.repo) # NoModel
    /\ JoinsResolve(lastOp.joins)
    /\ InvalidKeys(lastOp.filters) = {}
    /\ lastOp.order_by \in Fields \cup {NoOrder}
    /\ ValidPage(lastOp.skip) /\ ValidPage(lastOp.limit)

ClassificationKinds ==
    {"RepositoryUsageError", "RelationNotFoundError", "FieldNotFoundError",
     "OrderByFieldError", "PaginationParameterError"}

\* C12: a read operation calls session.execute exactly once when every
\* building step succeeds and makes no session call at all when a
\* classification error is raised, which happens exactly when a step fails;
\* the plan it executes holds resolved relations and fields only.
C12_ExecuteOnceOrNever ==
    lastOp.op # "none" =>
        LET d == lastOp.did IN
        /\ AllStepsSucceed =>
              /\ Len(d.calls) = 1 /\ d.calls[1].m = "execute"
              /\ d.executed # NoPlan
              /\ d.executed.joins = lastOp.joins
              /\ d.executed.where = lastOp.filters
              /\ d.raised.kind \notin ClassificationKinds
        /\ ~AllStepsSucceed =>
              /\ d.calls = <<>>
              /\ d.executed = NoPlan
              /\ d.raised.kind \in ClassificationKinds

\* a list whose joins, filters, order_by and pagination all resolve, executed
\* once
C12_Witness ==
    /\ lastOp.op = "list"
    /\ AllStepsSucceed
    /\ Len(lastOp.joins) = 1 /\ Len(lastOp.filters) = 1
    /\ lastOp.order_by = "name"
    /\ lastOp.skip.t = "int"
    /\ lastOp.did.calls = <<Call("execute", NoExc)>>

FirstFailingStep ==
    IF ~JoinsResolve(lastOp.joins) THEN "RelationNotFoundError"
    ELSE IF InvalidKeys(lastOp.filters) # {} THEN "FieldNotFoundError"
    ELSE IF lastOp.order_by \notin Fields \cup {NoOrder} THEN "OrderByFieldError"
    ELSE IF ~(ValidPage(lastOp.skip) /\ ValidPage(lastOp.limit))
    THEN "PaginationParameterError"
    ELSE "None"

\* C27: list on a configured repository (and get_one, for its two steps)
\* applies the building steps in the order joins, filters, order_by,
\* pagination and stops at the first that fails: when several arguments of
\* one call are invalid the error raised is that of the earliest step, and
\* nothing is executed; when no step fails no classification error is raised.
C27_EarliestStepReported ==
    (lastOp.op \in {"list", "get_one"} /\ Model(lastOp.repo) # NoModel) =>
        /\ FirstFailingStep # "None" =>
              /\ lastOp.did.raised.kind = FirstFailingStep
              /\ lastOp.did.calls = <<>>
        /\ FirstFailingStep = "None" =>
              lastOp.did.raised.kind \notin ClassificationKinds

\* a list whose filters, order_by and limit are all invalid, after a join
\* that resolves: the filter key is reported
C27_Witness ==
    /\ lastOp.op = "list"
    /\ lastOp.repo = "UserRepository"
    /\ lastOp.joins = <<"profile">>
    /\ InvalidKeys(lastOp.filters) # {}
    /\ lastOp.order_by = "notafield"
    /\ ~ValidPage(lastOp.limit)
    /\ lastOp.did.raised.kind = "FieldNotFoundError"
    /\ lastOp.did.calls = <<>>

\* two read operations of the scope were called with the same arguments
SameInputs(a, b) ==
    /\ a.op = b.op /\ a.repo = b.repo
    /\ a.joins = b.joins /\ a.filters = b.filters /\ a.order_by = b.order_by
    /\ a.skip = b.skip /\ a.limit = b.limit

----------------------------------------------------------------------------
(* Properties of the repository operations (RepoSpec) *)

ModelMissing ==
    Err("RepositoryUsageError", <<>>, "repository must define model attribute",
        "", "", "")

\* C14: every operation called on a repository whose model is None raises
\* the RepositoryUsageError of the model check, whatever its other arguments
\* are, makes no session call, executes nothing and leaves the object it was
\* given as it was.
C14_UnconfiguredRepositoryRefused ==
    /\ (lastOp.op # "none" /\ Model(lastOp.repo) = NoModel) =>
            /\ lastOp.did.raised = ModelMissing
            /\ lastOp.did.calls = <<>>
            /\ lastOp.did.executed = NoPlan
    /\ (lastWrite.op # "none" /\ Model(lastWrite.repo) = NoModel) =>
            /\ lastWrite.did.raised = ModelMissing
            /\ lastWrite.did.calls = <<>>
            /\ lastWrite.did.obj = lastWrite.obj

\* update of no object with an unknown key, on a repository without model
C14_Witness ==
    /\ lastWrite.op = "update"
    /\ Model(lastWrite.repo) = NoModel
    /\ lastWrite.obj = NoneObj
    /\ Len(lastWrite.data) = 1 /\ lastWrite.data[1].key = "nonexistent"
    /\ lastWrite.did.raised.kind = "RepositoryUsageError"
    /\ pending = lastWrite.did.raised

\* C18: when the constructor of the model (or session.add) raises inside
\* create, a TypeError or ValueError is raised as DataValidationError and
\* any other Exception as UnknownTransactionError; the error carries the
\* text of the failure and the model name, and a failed construction adds
\* nothing to the session.
C18_ConstructionFailureTranslated ==
    (lastWrite.op = "create" /\ Model(lastWrite.repo) # NoModel
        /\ lastWrite.fault # NoExc) =>
        LET f == lastWrite.fault
            e == lastWrite.did.raised
            invalid == IsInstance(f.kind, "TypeError") \/ IsInstance(f.kind, "ValueError")
        IN /\ invalid => e.kind = "DataValidationError"
           /\ ~invalid => e.kind = "UnknownTransactionError"
           /\ e.original = StrExc(f)
           /\ e.model = "User"
           /\ lastWrite.did.calls = <<>>
           /\ pending = e

\* a validator of the model raises ValueError for data whose keys are all
\* attributes
C18_Witness ==
    /\ lastWrite.op = "create"
    /\ lastWrite.repo = "UserRepository"
    /\ Len(lastWrite.data) = 2
    /\ lastWrite.fault.kind = "ValueError"
    /\ lastWrite.did.raised.kind = "DataValidationError"

\* C19: update and delete called on a configured repository with None raise
\* RepositoryUsageError, and called with an object that is no instance of
\* the model raise RepositoryUsageError naming the model; the object is not
\* modified and no session call is made.
C19_NonInstanceRefused ==
    (lastWrite.op \in {"update", "delete"} /\ Model(lastWrite.repo) # NoModel
        /\ lastWrite.obj.cls # Model(lastWrite.repo)) =>
        /\ lastWrite.did.raised.kind = "RepositoryUsageError"
        /\ lastWrite.obj # NoneObj => lastWrite.did.raised.model = Model(lastWrite.repo)
        /\ lastWrite.did.obj = lastWrite.obj
        /\ lastWrite.did.calls = <<>>

\* the positions of a data mapping whose key is no attribute of the object
UnknownItems(obj, data) == {i \in 1..Len(data) : ~hasattr(obj, data[i].key)}

\* C20: update of an instance of the model with a data mapping that holds an
\* unknown attribute name raises DataValidationError naming that key, and
\* every attribute of the object has the value it had before the call.
C20_UnknownKeyAppliesNothing ==
    (lastWrite.op = "update" /\ Model(lastWrite.repo) # NoModel
        /\ lastWrite.obj.cls = Model(lastWrite.repo)
        /\ UnknownItems(lastWrite.obj, lastWrite.data) # {}) =>
        /\ lastWrite.did.raised.kind = "DataValidationError"
        /\ lastWrite.did.raised.field =
               lastWrite.data[Min(UnknownItems(lastWrite.obj, lastWrite.data))].key
        /\ lastWrite.did.obj = lastWrite.obj

StatementKinds ==
    {"StatementError", "DBAPIError", "DatabaseError", "IntegrityError", "DataError"}

\* C24: every exception session.execute raises in a read operation is raised
\* to the body as QueryExecutionError carrying the model name: with details
\* "(data/type issue)" for a StatementError or DataError and "(unknown
\* error)" for every other exception; execute is called once.
C24_ExecuteFailureClassified ==
    (lastOp.op # "none" /\ lastFault # NoExc /\ Res(lastFault) = "raise") =>
        LET e == lastOp.did.raised IN
        /\ e.kind = "QueryExecutionError"
        /\ e.model = "User"
        /\ e.details = IF lastFault.kind \in StatementKinds
                       THEN "(data/type issue)" ELSE "(unknown error)"
        /\ Len(lastOp.did.calls) = 1
        /\ lastOp.did.calls[1].m = "execute"
        /\ pending = e

\* session.execute raises DataError in a list
C24_Witness ==
    /\ lastOp.op = "list"
    /\ lastFault.kind = "DataError"
    /\ lastOp.did.raised.kind = "QueryExecutionError"
    /\ lastOp.did.raised.details = "(data/type issue)"
    /\ lastOp.did.raised.model = "User"

\* C23: a taxonomy error raised in response to a lower-level exception
\* carries the text of that exception in `original`: the error of a read
\* operation whose session.execute raised, the error of create on a
\* configured repository whose constructor raised, and the error of
\* UnitOfWork.commit whose session.commit raised.
C23_OriginalCarriesFaultText ==
    /\ (lastOp.op # "none" /\ lastFault # NoExc
            /\ IsInstance(lastOp.did.raised.kind, "RepositoryError")) =>
          lastOp.did.raised.original = StrExc(lastFault)
    /\ (lastWrite.op = "create" /\ Model(lastWrite.repo) # NoModel
            /\ lastWrite.fault # NoExc
            /\ IsInstance(lastWrite.did.raised.kind, "RepositoryError")) =>
          lastWrite.did.raised.original = StrExc(lastWrite.fault)
    /\ (lastCommit.done /\ lastCommit.fault # NoExc
            /\ IsInstance(lastCommit.raised.kind, "RepositoryError")) =>
          lastCommit.raised.original = StrExc(lastCommit.fault)

\* the constructor raises TypeError for an unknown keyword
C23_Witness ==
    /\ lastWrite.op = "create"
    /\ lastWrite.fault.kind = "TypeError"
    /\ lastWrite.did.raised.kind = "DataValidationError"
    /\ lastWrite.did.raised.original = <<"check">>
    /\ pending = lastWrite.did.raised

----------------------------------------------------------------------------
(* Properties of the round trips through the database (DataSpec) *)

\* the rows of the table whose name sorts before n
Before(n) == {j \in 1..Len(db) : NameRank(db[j].name) < NameRank(n)}

\* C15: list(order_by="name", skip=s, limit=l) over the committed records,
\* s and l non-negative integers, returns the records at positions
\* [s, s+l) of the records in ascending name order: min(l, n-s) of them (none
\* when s >= n), the i-th of which has exactly s+i-1 records before it.
C15_ListReturnsSortedSlice ==
    (lastOp.op = "list" /\ Model(lastOp.repo) # NoModel /\ lastOp.did.raised = NoExc
        /\ lastOp.filters = <<>> /\ lastOp.order_by = "name"
        /\ lastOp.skip.t = "int" /\ lastOp.limit.t = "int") =>
        LET s == lastOp.skip.v
            l == lastOp.limit.v
            n == Len(db)
        IN /\ Len(result) = IF n <= s THEN 0 ELSE IF l < n - s THEN l ELSE n - s
           /\ \A i \in 1..Len(result) :
                 /\ \E j \in 1..n : db[j] = result[i]
                 /\ Cardinality(Before(result[i].name)) = s + i - 1

\* three records inserted out of name order; skip=1, limit=1 returns the
\* second by name
C15_Witness ==
    /\ lastOp.op = "list"
    /\ lastOp.order_by = "name"
    /\ lastOp.filters = <<>>
    /\ lastOp.skip = PageVal("int", 1) /\ lastOp.limit = PageVal("int", 1)
    /\ Len(db) = 3
    /\ db[1].name = "Cy" /\ db[2].name = "Bob" /\ db[3].name = "Ann"
    /\ result = <<db[2]>>

\* the committed records whose create data holds the item f
CreatedWith(f) ==
    {j \in 1..Len(db) : f.key \in {"name", "position"} /\ db[j].data[f.key] = f.value}

\* the object the last get_one returned has the fields of the data d
Returned1(d) ==
    /\ Len(result) = 1
    /\ result[1].name = d.name
    /\ result[1].position = d.position

\* C16 as stated: get_one with an equality filter on a field of the data of
\* a committed create returns an object whose fields equal that data.
C16_RoundTripOnAnyField ==
    (lastOp.op = "get_one" /\ Model(lastOp.repo) # NoModel
        /\ lastOp.did.raised = NoExc /\ Len(lastOp.filters) = 1) =>
        \A j \in CreatedWith(lastOp.filters[1]) : Returned1(db[j].data)

\* C16 amended: get_one with an equality filter on a field of the data of a
\* committed create, whose value no other committed record has in that
\* field, returns an object whose fields equal that data.
C16_RoundTripOnIdentifyingField ==
    (lastOp.op = "get_one" /\ Model(lastOp.repo) # NoModel
        /\ lastOp.did.raised = NoExc /\ Len(lastOp.filters) = 1) =>
        LET f == lastOp.filters[1] IN
        \A j \in CreatedWith(f) :
            (\A k \in 1..Len(db) : k # j => db[k][f.key] # f.value)
                => Returned1(db[j].data)

\* the second of two committed records, created with a name and a position,
\* is read back by its name in a scope that staged nothing
C16_Witness ==
    /\ lastOp.op = "get_one"
    /\ lastOp.repo = "UserRepository"
    /\ Len(db) = 2
    /\ db[2].data.position = "dev"
    /\ lastOp.filters = <<Pair("name", db[2].data.name)>>
    /\ result = <<db[2]>>
    /\ staged = <<>>

\* C17: a create that returns makes one session call, add, and stages the
\* instance constructed from its data; it leaves the committed rows as they
\* are, and the rows change only in an exit whose session.commit returned.
C17_CreateOnlyStages ==
    [][/\ (lastWrite' # lastWrite /\ lastWrite'.op = "create"
            /\ lastWrite'.did.raised = NoExc) =>
              /\ calls' = calls \o <<[m |-> "add", by |-> "body", res |-> "ok"]>>
              /\ lastWrite'.did.obj.name = Get(lastWrite'.data, "name")
              /\ lastWrite'.did.obj.position = Get(lastWrite'.data, "position")
              /\ Len(staged') = Len(staged) + 1
              /\ staged'[Len(staged')].kind = "add"
              /\ staged'[Len(staged')].obj = lastWrite'.did.obj
              /\ db' = db
       /\ db' # db =>
              \E i \in 1..Len(calls') :
                  calls'[i] = [m |-> "commit", by |-> "exit", res |-> "ok"]]_vars

\* a create has returned in a scope over a database that holds a record; the
\* new instance is staged and not among the rows
C17_Witness ==
    /\ lastWrite.op = "create"
    /\ lastWrite.did.raised = NoExc
    /\ Len(db) = 1
    /\ staged = <<Staged("add", lastWrite.did.obj, lastWrite.did.obj)>>
    /\ lastWrite.did.obj.name \notin DbNames(db)
    /\ calls = <<[m |-> "add", by |-> "body", res |-> "ok"]>>

----------------------------------------------------------------------------
(* Properties of the error taxonomy *)

\* the error kinds section 4.1 places below QueryError
ReadPathKinds ==
    {"RelationNotFoundError", "FieldNotFoundError", "QueryExecutionError",
     "OrderByFieldError", "PaginationParameterError"}

\* C22: the error kinds form the hierarchy of the taxonomy, so that a
\* handler for QueryError catches every taxonomy error a read operation
\* raises for its joins, filters, order_by, pagination or execution, and a
\* handler for TransactionError catches every taxonomy error
\* UnitOfWork.commit raises; each of them is a RepositoryError.
C22_HandlersCatchEveryFailure ==
    /\ (lastOp.op # "none" /\ lastOp.did.raised.kind \in ReadPathKinds) =>
          /\ IsInstance(lastOp.did.raised.kind, "QueryError")
          /\ IsInstance(lastOp.did.raised.kind, "RepositoryError")
    /\ (lastCommit.done /\ IsInstance(lastCommit.raised.kind, "RepositoryError")) =>
          IsInstance(lastCommit.raised.kind, "TransactionError")

\* C30: UnitOfWork.commit raises, for every integrity fault of
\* session.commit, an error of the kind IntegrityErrorMapper.map returns for
\* that fault, also when the fault carries no underlying driver error and
\* when its text holds both "unique" and "foreign key".
C30_CommitAgreesWithMapper ==
    (CommitTranslated /\ lastCommit.fault.kind = "IntegrityError") =>
        lastCommit.raised.kind = IntegrityErrorMapper_map(lastCommit.fault).kind

----------------------------------------------------------------------------
(* Properties of interleaved scopes (MultiSpec) *)

\* the factory calls of scope n of instance u
Acquired(u, n) ==
    {i \in 1..Len(slog) : slog[i].m = "factory" /\ slog[i].by = u /\ slog[i].scope = n}

\* C25: every scope acquires exactly one session from the factory, on
\* entry, and a session of its own; every call a scope makes on a session
\* (execute in its body; commit, rollback and close in its exit) is made on
\* the session it acquired, so that no session is committed, rolled back
\* or closed by the exit of another scope; instances that are open at the
\* same time hold different sessions.
C25_EachScopeItsOwnSession ==
    /\ \A u \in UnitsOfWork : \A n \in 1..uows[u].scope :
          Cardinality(Acquired(u, n)) = 1
    /\ \A i, j \in 1..Len(slog) :
          (slog[i].m = "factory" /\ slog[j].m = "factory" /\ i # j) =>
              slog[i].session # slog[j].session
    /\ \A i \in 1..Len(slog) :
          slog[i].m # "factory" =>
              \E k \in 1..(i - 1) :
                  /\ slog[k].m = "factory"
                  /\ slog[k].by = slog[i].by /\ slog[k].scope = slog[i].scope
                  /\ slog[k].session = slog[i].session
    /\ \A u, v \in UnitsOfWork :
          (u # v /\ uows[u].pc = "Body" /\ uows[v].pc = "Body") =>
              uows[u].session # uows[v].session

\* uow2 entered and left, committing, while uow1 was open; uow1 then failed
\* and rolled back its own session
C25_Witness ==
    /\ Len(slog) = 6
    /\ slog[1].m = "factory" /\ slog[1].by = "uow1"
    /\ slog[2].m = "factory" /\ slog[2].by = "uow2"
    /\ slog[3].m = "commit" /\ slog[3].session = slog[2].session
    /\ slog[4].m = "close" /\ slog[4].session = slog[2].session
    /\ slog[5].m = "rollback" /\ slog[5].session = slog[1].session
    /\ slog[6].m = "close" /\ slog[6].session = slog[1].session
    /\ slog[1].session # slog[2].session

----------------------------------------------------------------------------
(* Properties of the transactions on the database (TxSpec) *)

\* the step made a session.commit call that returned
CommitReturned ==
    \E i \in (Len(calls) + 1)..Len(calls') :
        calls'[i].m = "commit" /\ calls'[i].res = "ok"

\* the step is the exit of a scope
ScopeExit == pc = "Body" /\ pc' = "Closed"

\* the names whose deletion the scope has staged
StagedDeletes == {staged[i].obj.name : i \in {j \in 1..Len(staged) : staged[j].kind = "delete"}}

DeleteOnlyStages ==
    /\ (lastWrite' # lastWrite /\ lastWrite'.op = "delete"
            /\ lastWrite'.did.raised = NoExc) =>
          /\ calls' = calls \o <<[m |-> "delete", by |-> "body", res |-> "ok"]>>
          /\ staged' = Append(staged, Staged("delete", lastWrite'.obj, lastWrite'.obj))
          /\ db' = db
    /\ (DbNames(db) \ DbNames(db') # {}) =>
          /\ CommitReturned
          /\ DbNames(db) \ DbNames(db') \subseteq StagedDeletes
    /\ (ScopeExit /\ outcome' = Returned) =>
          DbNames(db') \cap StagedDeletes = {}

\* C21: a delete that returns makes one session call, delete, with the
\* object it was given, and neither commits nor flushes: the deletion is
\* staged and the committed rows stay as they are.  A record leaves the
\* committed rows only in a step whose session.commit returned, and only
\* when its deletion was staged; after a scope that completes normally the
\* records whose deletion it staged are gone.
C21_DeleteOnlyStages == [][DeleteOnlyStages]_vars

\* a delete has returned in a scope whose session had nothing staged: the
\* record is still among the committed rows
C21_Witness ==
    /\ lastWrite.op = "delete"
    /\ lastWrite.did.raised = NoExc
    /\ staged = <<Staged("delete", lastWrite.obj, lastWrite.obj)>>
    /\ lastWrite.obj.name \in DbNames(db)
    /\ calls = <<[m |-> "delete", by |-> "body", res |-> "ok"]>>

Atomic ==
    /\ db' # db => CommitReturned
    /\ CommitReturned => (db' = Flush(db, staged) /\ staged' = <<>>)
    /\ (ScopeExit /\ pending # NoExc) => (db' = db /\ staged' = <<>>)
    /\ (ScopeExit /\ outcome' # Returned) => (db' = db /\ staged' = <<>>)
    /\ (lastCommit' # lastCommit /\ lastCommit'.raised.kind = "UniqueViolation") =>
          /\ db' = db
          /\ staged' = <<>>

====
